---- MODULE Spec2Model ----
(***************************************************************************)
(* Model of streamlit_app.py, the GDP dashboard.                           *)
(*                                                                         *)
(* The script is re-executed top to bottom on every user interaction.  One *)
(* action of the model is one such execution ("render pass") together with *)
(* the widget change that triggered it.  The data file is a wide table     *)
(* (one row per country, one column per year); get_gdp_data melts it into  *)
(* a long table of observations and st.cache_data keeps the result.        *)
(*                                                                         *)
(* Numbers: a GDP cell is a natural number of dollars, the missing marker  *)
(* (NaN) is -1.  Column labels are strings of four digits, modelled as     *)
(* tuples of digits, so that str(x) and pd.to_numeric are real             *)
(* conversions.                                                            *)
(***************************************************************************)
EXTENDS Integers, Sequences, FiniteSets, TLC

\* ------------------------------------------------------------------------
\* Bounds of the model
NumYears == 3        \* number of years of the supported range kept
MaxRows == 2         \* at most this many country rows in the data file

\* ------------------------------------------------------------------------
\* Program constants
MIN_YEAR == 1960
MAX_YEAR == MIN_YEAR + NumYears - 1
BILLION == 1000000000
NumCols == 4

NaN == -1

CodeList == <<"DEU", "FRA", "GBR", "BRA", "MEX", "JPN">>
Codes == {CodeList[i] : i \in 1..MaxRows}
\* the default of the multiselect, cut down to the codes of the model
DefaultCountries == <<"DEU">>

Pages == {"home", "page1", "page2"}

\* str(x) for a four-digit year: its decimal digits
Str(x) == <<x \div 1000, (x \div 100) % 10, (x \div 10) % 10, x % 10>>

\* pd.to_numeric of a label of four digits
ToNumeric(s) == ((s[1] * 10 + s[2]) * 10 + s[3]) * 10 + s[4]

\* value_vars built with range(MIN_YEAR, MAX_YEAR): the last year is left out
ValueVarsShort == [k \in 1..(MAX_YEAR - MIN_YEAR) |-> Str(MIN_YEAR + k - 1)]

\* the value_vars of the melt: the labels of the supported range, in order
ValueVars == [k \in 1..(MAX_YEAR + 1 - MIN_YEAR) |-> Str(MIN_YEAR + k - 1)]

\* a year column of the file that lies outside the supported range
ExtraCol == Str(MAX_YEAR + 1)
\* what its cells hold: a value no cell of the supported range can hold
ExtraGDP == 9

\* the values a cell of the supported range can hold
GDPValues == {NaN, 0, 2, 3}

Range(s) == {s[i] : i \in 1..Len(s)}

\* ------------------------------------------------------------------------
\* The data file (pd.read_csv result): rows in file order, the set of year
\* columns it has, and the cells.
RowChoices ==
  {s \in UNION {[1..n -> Codes] : n \in 0..MaxRows} :
     \A i, j \in 1..Len(s) : i < j => \E a, b \in 1..Len(CodeList) :
        a < b /\ CodeList[a] = s[i] /\ CodeList[b] = s[j]}

\* the year columns a file can have: any of the supported range, and the
\* one outside it
ColChoices ==
  {c \cup {ExtraCol} : c \in SUBSET {Str(y) : y \in MIN_YEAR..MAX_YEAR}}

\* the year whose pattern value row i holds in the column of year y: each
\* row holds the pattern of the file shifted by one more year
Shift(y, i) == MIN_YEAR + ((y - MIN_YEAR + i - 1) % NumYears)

\* the cells of row i, given the pattern of the file
CellRows(cols, pattern, i) ==
  [c \in cols |-> IF c = ExtraCol THEN ExtraGDP
                  ELSE pattern[Shift(ToNumeric(c), i)]]

\* the tables with given rows and columns
RawTables(r, c) ==
  {[rows |-> r, cols |-> c,
    cell |-> [i \in 1..Len(r) |-> CellRows(c, pattern, i)]]
     : pattern \in [MIN_YEAR..MAX_YEAR -> GDPValues]}

\* ------------------------------------------------------------------------
\* get_gdp_data

\* one block of the melt: the rows of the file for one value column
MeltColumn(r, label) ==
  [i \in 1..Len(r.rows) |->
     [code |-> r.rows[i], Year |-> ToNumeric(label), GDP |-> r.cell[i][label]]]

RECURSIVE MeltFrom(_, _)
MeltFrom(r, k) ==
  IF k > Len(ValueVars) THEN <<>>
  ELSE MeltColumn(r, ValueVars[k]) \o MeltFrom(r, k + 1)

\* a melt that leaves out the cells without a value (a dropna after it)
MeltDropNa(r) ==
  IF \E k \in 1..Len(ValueVars) : ValueVars[k] \notin r.cols
  THEN [err |-> TRUE, df |-> <<>>]
  ELSE [err |-> FALSE, df |-> SelectSeq(MeltFrom(r, 1), LAMBDA o : o.GDP # NaN)]

\* raw_gdp_df.melt(['Country Code'], value_vars, 'Year', 'GDP') followed by
\* the conversion of Year: a value column the file lacks is a KeyError
Melt(r) ==
  IF \E k \in 1..Len(ValueVars) : ValueVars[k] \notin r.cols
  THEN [err |-> TRUE, df |-> <<>>]
  ELSE [err |-> FALSE, df |-> MeltFrom(r, 1)]

\* a cache whose entry does not survive a hit (an entry that expires at once)
GetGdpDataOneShot(r, c) ==
  IF c.filled THEN [err |-> FALSE, df |-> c.df,
                    cache |-> [filled |-> FALSE, df |-> <<>>]]
  ELSE LET m == Melt(r)
       IN  [err |-> m.err, df |-> m.df,
            cache |-> IF m.err THEN c ELSE [filled |-> TRUE, df |-> m.df]]

\* the st.cache_data wrapper: the body runs only when nothing is cached, and
\* a result is cached only when the body returned
GetGdpData(r, c) ==
  IF c.filled THEN [err |-> FALSE, df |-> c.df, cache |-> c]
  ELSE LET m == Melt(r)
       IN  [err |-> m.err, df |-> m.df,
            cache |-> IF m.err THEN c ELSE [filled |-> TRUE, df |-> m.df]]

\* ------------------------------------------------------------------------
\* Helpers of render_home_page

RECURSIVE YearMin(_)
\* gdp_df['Year'].min(): NaN for an empty column
YearMin(df) ==
  IF Len(df) = 0 THEN NaN
  ELSE LET m == YearMin(Tail(df))
       IN  IF m = NaN \/ Head(df).Year < m THEN Head(df).Year ELSE m

RECURSIVE YearMax(_)
\* gdp_df['Year'].max(): NaN for an empty column
YearMax(df) ==
  IF Len(df) = 0 THEN NaN
  ELSE LET m == YearMax(Tail(df))
       IN  IF m = NaN \/ Head(df).Year > m THEN Head(df).Year ELSE m

RECURSIVE UniqueFrom(_, _, _)
UniqueFrom(df, k, seen) ==
  IF k > Len(df) THEN seen
  ELSE IF df[k].code \in Range(seen) THEN UniqueFrom(df, k + 1, seen)
  ELSE UniqueFrom(df, k + 1, Append(seen, df[k].code))

\* gdp_df['Country Code'].unique(): the codes in order of first appearance
Unique(df) == UniqueFrom(df, 1, <<>>)

\* the subsequences of a list of options (what a multiselect can return)
RECURSIVE SubSeqs(_)
SubSeqs(s) ==
  IF Len(s) = 0 THEN {<<>>}
  ELSE LET rest == SubSeqs(Tail(s))
       IN  rest \cup {<<Head(s)>> \o t : t \in rest}

\* the mask with the upper year bound exclusive
FilterMaskStrict(df, sel, from, to) ==
  [i \in 1..Len(df) |->
     /\ df[i].code \in Range(sel)
     /\ df[i].Year < to
     /\ from <= df[i].Year]

\* the boolean mask of the filter, row by row
FilterMask(df, sel, from, to) ==
  [i \in 1..Len(df) |->
     /\ df[i].code \in Range(sel)
     /\ df[i].Year <= to
     /\ from <= df[i].Year]

RECURSIVE Take(_, _, _)
\* df[mask]: the rows whose mask is true, in order
Take(df, mask, k) ==
  IF k > Len(df) THEN <<>>
  ELSE IF mask[k] THEN <<df[k]>> \o Take(df, mask, k + 1)
  ELSE Take(df, mask, k + 1)

\* a filter that loses the first row it selects (a slice off by one)
FilterDfSkipFirst(df, sel, from, to) ==
  LET kept == Take(df, FilterMask(df, sel, from, to), 1)
  IN  IF Len(kept) = 0 THEN kept ELSE Tail(kept)

\* gdp_df[isin(selected_countries) & (Year <= to_year) & (from_year <= Year)]
FilterDf(df, sel, from, to) == Take(df, FilterMask(df, sel, from, to), 1)

\* the rows up to a year instead of the rows of that year
YearRowsUpTo(df, y) == SelectSeq(df, LAMBDA o : o.Year <= y)

\* gdp_df[gdp_df['Year'] == y]
YearRows(df, y) == SelectSeq(df, LAMBDA o : o.Year = y)

\* frame[frame['Country Code'] == country]['GDP']
CountryGDP(frame, country) ==
  LET rows == SelectSeq(frame, LAMBDA o : o.code = country)
  IN  [i \in 1..Len(rows) |-> rows[i].GDP]

\* rounding of n/d to an integer as a format specification does it
RoundHalfEven(n, d) ==
  LET q == n \div d
      r == n % d
  IN  IF 2 * r < d THEN q
      ELSE IF 2 * r > d THEN q + 1
      ELSE IF q % 2 = 0 THEN q ELSE q + 1

\* f'{last_gdp / first_gdp:,.2f}x' for first_gdp that is not NaN.  Both
\* operands were divided by BILLION, so the quotient is last/first.  The
\* values are numpy floats: x/0 is inf, 0/0 and NaN/x are nan, none raises.
FormatGrowth(last, first) ==
  IF last = NaN THEN [kind |-> "nan", hundredths |-> 0]
  ELSE IF first = 0
  THEN IF last = 0 THEN [kind |-> "nan", hundredths |-> 0]
       ELSE [kind |-> "inf", hundredths |-> 0]
  ELSE [kind |-> "ratio", hundredths |-> RoundHalfEven(100 * last, first)]

\* f'{last_gdp:,.0f}B' with last_gdp = GDP / 1000000000
FormatValue(last) ==
  IF last = NaN THEN [kind |-> "nan", billions |-> 0]
  ELSE [kind |-> "number", billions |-> RoundHalfEven(last, BILLION)]

\* the body of the loop for one country, given the two values found
Metric(country, i, first_gdp, last_gdp) ==
  [label |-> country,
   col |-> (i - 1) % NumCols,
   value |-> FormatValue(last_gdp),
   delta |-> IF first_gdp = NaN THEN [kind |-> "n/a", hundredths |-> 0]
             ELSE FormatGrowth(last_gdp, first_gdp),
   delta_color |-> IF first_gdp = NaN THEN "off" ELSE "normal"]

\* the loop over selected_countries: .iat[0] of an empty column is an
\* IndexError, which ends the pass with the metrics shown so far
GrowthStep(df, sel, from, to) ==
  LET first_year == YearRows(df, from)
      last_year == YearRows(df, to)
      found(i) == /\ Len(CountryGDP(first_year, sel[i])) > 0
                  /\ Len(CountryGDP(last_year, sel[i])) > 0
      bad == {i \in 1..Len(sel) : ~found(i)}
      n == IF bad = {} THEN Len(sel)
           ELSE (CHOOSE i \in bad : \A j \in bad : i <= j) - 1
  IN  [err |-> bad # {},
       metrics |-> [i \in 1..n |->
                      Metric(sel[i], i, CountryGDP(first_year, sel[i])[1],
                             CountryGDP(last_year, sel[i])[1])]]

\* ------------------------------------------------------------------------
\* State

VARIABLES
  raw,                 \* the data file, as read_csv reads it
  cache,               \* the st.cache_data entry of get_gdp_data
  gdp_df,              \* the module-level frame of the last pass
  selected_page,       \* the radio of the sidebar
  slider,              \* widget state of the year slider
  multiselect,         \* widget state of the country multiselect
  status,              \* how the last pass ended
  warning,             \* st.warning was shown in the last pass
  from_year, to_year,  \* what the slider returned in the last pass
  selected_countries,  \* what the multiselect returned in the last pass
  filtered_gdp_df,     \* the frame handed to the line chart
  metrics              \* the st.metric calls of the last pass, in order

vars == <<raw, cache, gdp_df, selected_page, slider, multiselect, status,
          warning, from_year, to_year, selected_countries, filtered_gdp_df,
          metrics>>

NoWidget == [live |-> FALSE, value |-> <<>>]
Widget(v) == [live |-> TRUE, value |-> v]

\* what a pass leaves behind when it shows nothing of the home page
Blank ==
  [slider |-> NoWidget, multiselect |-> NoWidget, warning |-> FALSE,
   from_year |-> NaN, to_year |-> NaN, selected_countries |-> <<>>,
   filtered_gdp_df |-> <<>>, metrics |-> <<>>]

\* render_home_page, dashboard tab.  sl and ms are the widget states the
\* pass starts with; nanRaises says whether the slider rejects NaN bounds
\* (what it does with them is not fixed by this code).
RenderHomePage(df, sl, ms, nanRaises) ==
  LET min_value == YearMin(df)
      max_value == YearMax(df)
      years == IF sl.live THEN sl.value ELSE <<min_value, max_value>>
      countries == Unique(df)
      warn == (Len(countries) = 0)
      sel == IF ms.live THEN ms.value ELSE DefaultCountries
      growth == GrowthStep(df, sel, years[1], years[2])
  IN  IF min_value = NaN /\ nanRaises
      THEN [Blank EXCEPT !.slider = NoWidget] @@ [status |-> "SliderError"]
      ELSE IF ~(Range(DefaultCountries) \subseteq Range(countries))
      THEN [Blank EXCEPT !.slider = Widget(years), !.warning = warn,
                         !.from_year = years[1], !.to_year = years[2]]
           @@ [status |-> "MultiselectError"]
      ELSE [slider |-> Widget(years), multiselect |-> Widget(sel),
            warning |-> warn, from_year |-> years[1], to_year |-> years[2],
            selected_countries |-> sel,
            filtered_gdp_df |-> FilterDf(df, sel, years[1], years[2]),
            metrics |-> growth.metrics,
            status |-> IF growth.err THEN "IndexError" ELSE "done"]

\* one execution of the script: load (or cache hit), sidebar, routing
Script(r, c, page, sl, ms, nanRaises) ==
  LET g == GetGdpData(r, c)
  IN  IF g.err
      THEN Blank @@ [status |-> "KeyError", cache |-> g.cache, gdp_df |-> <<>>,
                     selected_page |-> "home"]
      ELSE IF page = "home"
      THEN RenderHomePage(g.df, sl, ms, nanRaises)
           @@ [cache |-> g.cache, gdp_df |-> g.df, selected_page |-> page]
      ELSE Blank @@ [status |-> "done", cache |-> g.cache, gdp_df |-> g.df,
                     selected_page |-> page]

Apply(out) ==
  /\ cache' = out.cache
  /\ gdp_df' = out.gdp_df
  /\ selected_page' = out.selected_page
  /\ slider' = out.slider
  /\ multiselect' = out.multiselect
  /\ status' = out.status
  /\ warning' = out.warning
  /\ from_year' = out.from_year
  /\ to_year' = out.to_year
  /\ selected_countries' = out.selected_countries
  /\ filtered_gdp_df' = out.filtered_gdp_df
  /\ metrics' = out.metrics
  /\ UNCHANGED raw

Init ==
  /\ \E r \in RowChoices, c \in ColChoices : raw \in RawTables(r, c)
  /\ cache = [filled |-> FALSE, df |-> <<>>]
  /\ gdp_df = <<>>
  /\ selected_page = "home"
  /\ slider = NoWidget
  /\ multiselect = NoWidget
  /\ status = "init"
  /\ warning = FALSE
  /\ from_year = NaN
  /\ to_year = NaN
  /\ selected_countries = <<>>
  /\ filtered_gdp_df = <<>>
  /\ metrics = <<>>

\* the outcomes of one execution; the slider's treatment of NaN bounds is
\* the only choice, and it arises only for an empty frame
Passes(r, c, page, sl, ms) ==
  {Script(r, c, page, sl, ms, b) : b \in BOOLEAN}

\* the script runs with the widgets as they are (first visit, or a rerun)
Run ==
  \E out \in Passes(raw, cache, selected_page, slider, multiselect) :
    Apply(out)

\* the user picks a page in the sidebar
SelectPage ==
  /\ status \notin {"init", "KeyError"}
  /\ \E p \in Pages \ {selected_page} :
     \E out \in Passes(raw, cache, p, slider, multiselect) : Apply(out)

\* the user moves the year slider
MoveSlider ==
  /\ slider.live
  /\ from_year # NaN
  /\ \E f \in YearMin(gdp_df)..YearMax(gdp_df) :
     \E t \in f..YearMax(gdp_df) :
       /\ <<f, t>> # slider.value
       /\ \E out \in Passes(raw, cache, selected_page, Widget(<<f, t>>),
                            multiselect) : Apply(out)

\* the user changes the country selection
SelectCountries ==
  /\ multiselect.live
  /\ \E sel \in SubSeqs(Unique(gdp_df)) \ {multiselect.value} :
     \E out \in Passes(raw, cache, selected_page, slider, Widget(sel)) :
       Apply(out)

Next == Run \/ SelectPage \/ MoveSlider \/ SelectCountries

Spec == Init /\ [][Next]_vars

\* ------------------------------------------------------------------------
\* Properties

\* the file's own cell for a country and a year
RowOf(code) == CHOOSE i \in 1..Len(raw.rows) : raw.rows[i] = code
RawGDP(code, year) == raw.cell[RowOf(code)][Str(year)]

\* the last pass rendered the whole dashboard tab
HomeDone == selected_page = "home" /\ status = "done"

\* the last pass got as far as the per-country loop
GrowthReached == selected_page = "home" /\ multiselect.live

Abs(x) == IF x < 0 THEN -x ELSE x

\* C1: the per-country growth step never raises: every pass that reaches it
\* ends normally with one metric per selected country, in order, also when
\* the start value or the end value is missing.
C1_GrowthTotal ==
  GrowthReached =>
    /\ status = "done"
    /\ Len(metrics) = Len(selected_countries)
    /\ \A i \in 1..Len(metrics) : metrics[i].label = selected_countries[i]

C1_Witness ==
  /\ HomeDone
  /\ \E i \in 1..Len(metrics) :
       RawGDP(selected_countries[i], from_year) = NaN
  /\ \E i \in 1..Len(metrics) :
       RawGDP(selected_countries[i], to_year) = NaN

\* C2: a metric whose start value or end value is missing has the delta
\* "n/a" and the delta colour "off".
C2_MissingEndpointNotComparable ==
  HomeDone =>
    \A i \in 1..Len(metrics) :
      (\/ RawGDP(selected_countries[i], from_year) = NaN
       \/ RawGDP(selected_countries[i], to_year) = NaN)
      => /\ metrics[i].delta.kind = "n/a"
         /\ metrics[i].delta_color = "off"

\* C3: a metric whose start value is zero has the delta "n/a".
C3_ZeroStartNotComparable ==
  HomeDone =>
    \A i \in 1..Len(metrics) :
      RawGDP(selected_countries[i], from_year) = 0
      => metrics[i].delta.kind = "n/a"

\* C4: in a pass where the multiselect returned, the warning is shown exactly
\* when the selection is empty, and then the filtered frame is empty and the
\* pass ends without an error.
C4_WarningIffEmptySelection ==
  GrowthReached =>
    /\ warning <=> (Len(selected_countries) = 0)
    /\ Len(selected_countries) = 0
       => (Len(filtered_gdp_df) = 0 /\ status = "done")

\* C5: once loaded, the frame holds exactly one observation for every row of
\* the file and every year of the supported range, carrying that cell, and
\* nothing else: no pair twice, none dropped, nothing from a column outside
\* the range.
C5_OneObservationPerPair ==
  status \notin {"init", "KeyError"} =>
    /\ \A i \in 1..Len(raw.rows), y \in MIN_YEAR..MAX_YEAR :
         Cardinality({k \in 1..Len(gdp_df) :
                        /\ gdp_df[k].code = raw.rows[i]
                        /\ gdp_df[k].Year = y}) = 1
    /\ \A k \in 1..Len(gdp_df) :
         /\ gdp_df[k].Year \in MIN_YEAR..MAX_YEAR
         /\ gdp_df[k].code \in Range(raw.rows)
         /\ gdp_df[k].GDP = RawGDP(gdp_df[k].code, gdp_df[k].Year)

C5_Witness ==
  /\ status = "done"
  /\ Len(raw.rows) = 2
  /\ ExtraCol \in raw.cols
  /\ \E k \in 1..Len(gdp_df) : gdp_df[k].GDP = NaN
  /\ \E k \in 1..Len(gdp_df) : gdp_df[k].GDP = 3

\* C6: the filtered frame is exactly the observations of the frame whose
\* year lies in [from_year, to_year] and whose country is selected, each
\* once.
C6_FilterExact ==
  HomeDone =>
    LET inside(o) == /\ o.code \in Range(selected_countries)
                     /\ from_year <= o.Year
                     /\ o.Year <= to_year
    IN  /\ \A k \in 1..Len(filtered_gdp_df) :
             /\ inside(filtered_gdp_df[k])
             /\ \E j \in 1..Len(gdp_df) : gdp_df[j] = filtered_gdp_df[k]
        /\ \A j \in 1..Len(gdp_df) :
             inside(gdp_df[j]) =>
               Cardinality({k \in 1..Len(filtered_gdp_df) :
                              filtered_gdp_df[k] = gdp_df[j]}) = 1

C6_Witness ==
  /\ HomeDone
  /\ Len(filtered_gdp_df) > 0
  /\ \E j \in 1..Len(gdp_df) :
       /\ gdp_df[j].code \notin Range(selected_countries)
       /\ gdp_df[j].Year = from_year
  /\ \E j \in 1..Len(gdp_df) :
       /\ gdp_df[j].code \in Range(selected_countries)
       /\ gdp_df[j].Year > to_year

\* C7: a file that has some but not all year columns of the supported range
\* is loaded all the same: the pass does not end in the KeyError of the melt.
C7_MissingYearColumnFailsOpen ==
  (/\ status # "init"
   /\ \E y \in MIN_YEAR..MAX_YEAR : Str(y) \in raw.cols
   /\ \E y \in MIN_YEAR..MAX_YEAR : Str(y) \notin raw.cols)
  => status # "KeyError"

\* C8: the metric of a selected country is computed from the file's cells at
\* from_year and at to_year: when both are present and the start is not zero
\* its delta is end/start, shown to two decimals.
C8_RatioOfEndpoints ==
  HomeDone =>
    \A i \in 1..Len(metrics) :
      LET start == RawGDP(selected_countries[i], from_year)
          end == RawGDP(selected_countries[i], to_year)
      IN  (start # NaN /\ start # 0 /\ end # NaN) =>
            /\ metrics[i].delta.kind = "ratio"
            /\ 2 * Abs(100 * end - metrics[i].delta.hundredths * start)
                 <= start

\* start 2 and end 3 (the 100 and 150 of the example): ratio 1.50
C8_Witness ==
  /\ HomeDone
  /\ from_year < to_year
  /\ \E i \in 1..Len(metrics) :
       /\ 2 * RawGDP(selected_countries[i], to_year)
            = 3 * RawGDP(selected_countries[i], from_year)
       /\ RawGDP(selected_countries[i], from_year) > 0
       /\ metrics[i].delta = [kind |-> "ratio", hundredths |-> 150]

\* C9: filtering the filtered frame again with the same selection returns
\* the same frame.
C9_FilterIdempotent ==
  HomeDone =>
    FilterDf(filtered_gdp_df, selected_countries, from_year, to_year)
      = filtered_gdp_df

C9_Witness ==
  /\ HomeDone
  /\ Len(filtered_gdp_df) > 0
  /\ Len(filtered_gdp_df) < Len(gdp_df)

\* C10: once the cache is written, no pass changes it, and every later pass
\* works on the cached frame.
C10_CacheWrittenOnce ==
  [][cache.filled => (cache' = cache /\ gdp_df' = cache.df)]_vars

C10_Witness ==
  /\ HomeDone
  /\ cache.filled
  /\ cache.df = gdp_df
  /\ Len(gdp_df) > 0
  /\ <<from_year, to_year>> # <<MIN_YEAR, MAX_YEAR>>
  /\ selected_countries # DefaultCountries

====
